---- MODULE Spec2Model ----
(***************************************************************************)
(* The pixel rearrangement pair of denoising/functions.py:                 *)
(*   concatenate_input_noise_map       (space-to-depth plus noise map)     *)
(*   UpSampleFeaturesFunction.forward  (depth-to-space)                    *)
(*   UpSampleFeaturesFunction.backward (its hand-written gradient)         *)
(* A tensor is a record [kind, size, data]: size is the tuple of its       *)
(* dimensions and data maps every 0-based index tuple to an integer.  A    *)
(* call that raises yields a record of kind "error" instead.               *)
(***************************************************************************)
EXTENDS Integers, Sequences, FiniteSets

VARIABLES input, noise_sigma, folded, features, result, grad_output, grad_input, pc

\* input        the tensor the first call is given
\* noise_sigma  the noise vector given to concatenate_input_noise_map
\* folded       what concatenate_input_noise_map returned (or raised)
\* features     the tensor given to UpSampleFeaturesFunction.forward
\* result       what forward returned (or raised)
\* grad_output  the gradient given to UpSampleFeaturesFunction.backward
\* grad_input   what backward returned (or raised)
\* pc           "start", "folded", "features", "unfolded" or "done"
vars == <<input, noise_sigma, folded, features, result, grad_output, grad_input, pc>>

(* ------------------------------ bounds -------------------------------- *)
\* Sizes: N in 0..MaxN, C in 0..MaxC, H in 0..MaxH, W in 0..MaxW.  For each
\* size the calls are given the ramps seed + 1, seed + 2, ... (seed in
\* 0..MaxSeed) and, for sizes of at most MaxVol elements, every tensor with
\* elements in 0..MaxVal.
MaxN == 2
MaxC == 4
MaxH == 4
MaxW == 4
MaxSeed == 0
MaxVal == 1
MaxVol == 4

(* ------------------------- tensor primitives -------------------------- *)
Indices(size) ==
    (0..(size[1] - 1)) \X (0..(size[2] - 1)) \X (0..(size[3] - 1)) \X (0..(size[4] - 1))

Tensor(size, data) == [kind |-> "tensor", size |-> size, data |-> data]

Raised(type, msg) == [kind |-> "error", type |-> type, msg |-> msg]

NotRun == [kind |-> "none"]

IsTensor(t) == t.kind = "tensor"

IsError(t) == t.kind = "error"

zeros(size) == Tensor(size, [p \in Indices(size) |-> 0])

\* Number of elements a Python slice start:stop:step selects (start, step >= 0).
SliceLen(start, stop, step) ==
    IF stop <= start THEN 0 ELSE (stop - start + step - 1) \div step

Min(a, b) == IF a <= b THEN a ELSE b

(* Variants of the definitions below, each changed the way a slip in the    *)
(* code would change it; a property of the code should tell the code from  *)
(* its variant.  A variant is named after the definition it varies.        *)

\* Variant of Slice: image n is read from image n + 1 (cyclically).
Slice_rolled(t, cs, cstop, cstep, hs, hstep, ws, wstep) ==
    LET size == << t.size[1],
                   SliceLen(cs, Min(cstop, t.size[2]), cstep),
                   SliceLen(hs, t.size[3], hstep),
                   SliceLen(ws, t.size[4], wstep) >>
    IN  Tensor(size,
               [p \in Indices(size) |->
                    t.data[<<(p[1] + 1) % t.size[1], cs + cstep * p[2],
                             hs + hstep * p[3], ws + wstep * p[4]>>]])

\* t[:, cs:cstop:cstep, hs::hstep, ws::wstep] read as a tensor of its own.
Slice(t, cs, cstop, cstep, hs, hstep, ws, wstep) ==
    LET size == << t.size[1],
                   SliceLen(cs, Min(cstop, t.size[2]), cstep),
                   SliceLen(hs, t.size[3], hstep),
                   SliceLen(ws, t.size[4], wstep) >>
    IN  Tensor(size,
               [p \in Indices(size) |->
                    t.data[<<p[1], cs + cstep * p[2], hs + hstep * p[3], ws + wstep * p[4]>>]])

\* A source of size src can be expanded to size dst: each dimension is equal
\* or is 1 in the source (a source dimension of 1 also expands to 0).
Expandable(src, dst) == \A d \in 1..4 : src[d] = dst[d] \/ src[d] = 1

\* dst[:, cs:cstop:cstep, hs::hstep, ws::wstep] = src.  The source is expanded
\* to the size of the selected view; a size that cannot be expanded raises.
SetSlice(dst, cs, cstop, cstep, hs, hstep, ws, wstep, src) ==
    LET view == << dst.size[1],
                   SliceLen(cs, Min(cstop, dst.size[2]), cstep),
                   SliceLen(hs, dst.size[3], hstep),
                   SliceLen(ws, dst.size[4], wstep) >>
        Sel(p) == /\ p[2] >= cs /\ p[2] < cstop /\ (p[2] - cs) % cstep = 0
                  /\ p[3] >= hs /\ (p[3] - hs) % hstep = 0
                  /\ p[4] >= ws /\ (p[4] - ws) % wstep = 0
        At(d, i) == IF src.size[d] = 1 THEN 0 ELSE i
        From(p) == << At(1, p[1]),
                      At(2, (p[2] - cs) \div cstep),
                      At(3, (p[3] - hs) \div hstep),
                      At(4, (p[4] - ws) \div wstep) >>
    IN  IF ~Expandable(src.size, view)
        THEN Raised("RuntimeError", "The expanded size of the tensor must match the existing size")
        ELSE Tensor(dst.size,
                    [p \in Indices(dst.size) |->
                         IF Sel(p) THEN src.data[From(p)] ELSE dst.data[p]])

\* Variant of view: a vector longer than N is cut to its first N elements.
view_prefix(v, N) ==
    IF v.size[1] < N
    THEN Raised("RuntimeError", "shape is invalid for input of this size")
    ELSE Tensor(<<N, 1, 1, 1>>, [p \in Indices(<<N, 1, 1, 1>>) |-> v.data[p[1]]])

\* noise_sigma.view(N, 1, 1, 1): the element count must be N.
view(v, N) ==
    IF v.size[1] # N
    THEN Raised("RuntimeError", "shape is invalid for input of this size")
    ELSE Tensor(<<N, 1, 1, 1>>, [p \in Indices(<<N, 1, 1, 1>>) |-> v.data[p[1]]])

\* t.repeat(r1, r2, r3, r4): t tiled r_d times along dimension d.
repeat(t, reps) ==
    LET size == [d \in 1..4 |-> t.size[d] * reps[d]]
    IN  Tensor(size,
               [p \in Indices(size) |->
                    t.data[<<p[1] % t.size[1], p[2] % t.size[2],
                             p[3] % t.size[3], p[4] % t.size[4]>>]])

\* torch.cat((a, b), 1): the sizes must agree outside dimension 1.
cat(a, b) ==
    IF \E d \in {1, 3, 4} : a.size[d] # b.size[d]
    THEN Raised("RuntimeError", "Sizes of tensors must match except in dimension 1")
    ELSE LET size == <<a.size[1], a.size[2] + b.size[2], a.size[3], a.size[4]>>
         IN  Tensor(size,
                    [p \in Indices(size) |->
                         IF p[2] < a.size[2]
                         THEN a.data[p]
                         ELSE b.data[<<p[1], p[2] - a.size[2], p[3], p[4]>>]])

(* ----------------------- denoising/functions.py ----------------------- *)
sca == 2

sca2 == sca * sca

\* idxL of concatenate_input_noise_map; idx runs from 0, the tuple from 1.
idxL_fold == << <<0, 0>>, <<0, 1>>, <<1, 0>>, <<1, 1>> >>

\* Variant of idxL_forward: (0,1) and (1,0) change places.
idxL_forward_swapped == << <<0, 0>>, <<1, 0>>, <<0, 1>>, <<1, 1>> >>

\* idxL of UpSampleFeaturesFunction.forward.
idxL_forward == << <<0, 0>>, <<0, 1>>, <<1, 0>>, <<1, 1>> >>

\* Variant of idxL_backward: (0,1) and (1,0) change places.
idxL_backward_swapped == << <<0, 0>>, <<1, 0>>, <<0, 1>>, <<1, 1>> >>

\* idxL of UpSampleFeaturesFunction.backward.
idxL_backward == << <<0, 0>>, <<0, 1>>, <<1, 0>>, <<1, 1>> >>

\* Noise vector of length N -> noise map of size (N, C, Hout, Wout).
noise_map(sigma, N, C, Hout, Wout) ==
    LET viewed == view(sigma, N)
    IN  IF IsError(viewed) THEN viewed ELSE repeat(viewed, <<1, C, Hout, Wout>>)

\* Variant of PopulateFold: the four offsets are grouped, offset idx filling
\* the channels idx*C .. (idx+1)*C - 1, instead of interleaved with stride 4.
RECURSIVE PopulateFold_grouped(_, _, _)
PopulateFold_grouped(downsampledfeatures, inp, idx) ==
    IF idx = sca2 \/ IsError(downsampledfeatures)
    THEN downsampledfeatures
    ELSE PopulateFold_grouped(
             SetSlice(downsampledfeatures, idx * inp.size[2], (idx + 1) * inp.size[2], 1,
                      0, 1, 0, 1,
                      Slice(inp, 0, inp.size[2], 1,
                            idxL_fold[idx + 1][1], sca, idxL_fold[idx + 1][2], sca)),
             inp, idx + 1)

\* for idx in range(sca2):
\*     downsampledfeatures[:, idx:Cout:sca2, :, :] =
\*         input[:, :, idxL[idx][0]::sca, idxL[idx][1]::sca]
\* from iteration idx on; an iteration that raises ends the loop.
RECURSIVE PopulateFold(_, _, _)
PopulateFold(downsampledfeatures, inp, idx) ==
    IF idx = sca2 \/ IsError(downsampledfeatures)
    THEN downsampledfeatures
    ELSE PopulateFold(
             SetSlice(downsampledfeatures, idx, downsampledfeatures.size[2], sca2, 0, 1, 0, 1,
                      Slice(inp, 0, inp.size[2], 1,
                            idxL_fold[idx + 1][1], sca, idxL_fold[idx + 1][2], sca)),
             inp, idx + 1)

\* Variant of Concatenate: the noise map is put after the image channels.
Concatenate_noise_last(noise, downsampledfeatures) == cat(downsampledfeatures, noise)

\* torch.cat((noise_map, downsampledfeatures), 1)
Concatenate(noise, downsampledfeatures) == cat(noise, downsampledfeatures)

concatenate_input_noise_map(inp, sigma) ==
    LET N == inp.size[1]
        C == inp.size[2]
        H == inp.size[3]
        W == inp.size[4]
        Cout == sca2 * C
        Hout == H \div sca
        Wout == W \div sca
        noise == noise_map(sigma, N, C, Hout, Wout)
        downsampledfeatures == PopulateFold(zeros(<<N, Cout, Hout, Wout>>), inp, 0)
    IN  IF IsError(noise) THEN noise
        ELSE IF IsError(downsampledfeatures) THEN downsampledfeatures
        ELSE Concatenate(noise, downsampledfeatures)

\* Variant of ChannelsDivisible: sca is used where sca2 is meant.
ChannelsDivisible_sca(Cin) == Cin % sca = 0

\* assert Cin % sca2 == 0, '...'
ChannelsDivisible(Cin) == Cin % sca2 = 0

\* Variant of PopulateForward: offset idx is read from the channels
\* idx*Cout .. (idx+1)*Cout - 1 instead of the channels idx, idx + 4, ...
RECURSIVE PopulateForward_grouped(_, _, _)
PopulateForward_grouped(res, inp, idx) ==
    IF idx = sca2 \/ IsError(res)
    THEN res
    ELSE PopulateForward_grouped(
             SetSlice(res, 0, res.size[2], 1,
                      idxL_forward[idx + 1][1], sca, idxL_forward[idx + 1][2], sca,
                      Slice(inp, idx * res.size[2], (idx + 1) * res.size[2], 1, 0, 1, 0, 1)),
             inp, idx + 1)

\* for idx in range(sca2):
\*     result[:, :, idxL[idx][0]::sca, idxL[idx][1]::sca] = input[:, idx:Cin:sca2, :, :]
RECURSIVE PopulateForward(_, _, _)
PopulateForward(res, inp, idx) ==
    IF idx = sca2 \/ IsError(res)
    THEN res
    ELSE PopulateForward(
             SetSlice(res, 0, res.size[2], 1,
                      idxL_forward[idx + 1][1], sca, idxL_forward[idx + 1][2], sca,
                      Slice(inp, idx, inp.size[2], sca2, 0, 1, 0, 1)),
             inp, idx + 1)

forward(inp) ==
    LET N == inp.size[1]
        Cin == inp.size[2]
        Hin == inp.size[3]
        Win == inp.size[4]
        Cout == Cin \div sca2
        Hout == Hin * sca
        Wout == Win * sca
    IN  IF ~ChannelsDivisible(Cin)
        THEN Raised("AssertionError",
                    "Invalid input dimensions: number of channels should be divisible by 4")
        ELSE PopulateForward(zeros(<<N, Cout, Hout, Wout>>), inp, 0)

\* Variant of PopulateBackward: the row offset is used for the column too.
RECURSIVE PopulateBackward_rowtwice(_, _, _)
PopulateBackward_rowtwice(gin, gout, idx) ==
    IF idx = sca2 \/ IsError(gin)
    THEN gin
    ELSE PopulateBackward_rowtwice(
             SetSlice(gin, idx, gin.size[2], sca2, 0, 1, 0, 1,
                      Slice(gout, 0, gout.size[2], 1,
                            idxL_backward[idx + 1][1], sca, idxL_backward[idx + 1][1], sca)),
             gout, idx + 1)

\* for idx in range(sca2):
\*     grad_input[:, idx:Cg_in:sca2, :, :] =
\*         grad_output[:, :, idxL[idx][0]::sca, idxL[idx][1]::sca]
RECURSIVE PopulateBackward(_, _, _)
PopulateBackward(gin, gout, idx) ==
    IF idx = sca2 \/ IsError(gin)
    THEN gin
    ELSE PopulateBackward(
             SetSlice(gin, idx, gin.size[2], sca2, 0, 1, 0, 1,
                      Slice(gout, 0, gout.size[2], 1,
                            idxL_backward[idx + 1][1], sca, idxL_backward[idx + 1][2], sca)),
             gout, idx + 1)

backward(gout) ==
    LET N == gout.size[1]
        Cg_out == gout.size[2]
        Hg_out == gout.size[3]
        Wg_out == gout.size[4]
        Cg_in == sca2 * Cg_out
        Hg_in == Hg_out \div sca
        Wg_in == Wg_out \div sca
    IN  PopulateBackward(zeros(<<N, Cg_in, Hg_in, Wg_in>>), gout, 0)

(* ------------------------------ inputs -------------------------------- *)
Sizes == (0..MaxN) \X (0..MaxC) \X (0..MaxH) \X (0..MaxW)

\* Row-major position of index p in a tensor of the given size.
Flat(size, p) == ((p[1] * size[2] + p[2]) * size[3] + p[3]) * size[4] + p[4]

\* A batch whose elements are all different and none 0: seed + 1, seed + 2, ...
\* in row-major order.
Ramp(size, seed) == Tensor(size, [p \in Indices(size) |-> seed + 1 + Flat(size, p)])

Volume(size) == size[1] * size[2] * size[3] * size[4]

\* Every tensor of the given size with elements in 0..MaxVal, for the sizes of
\* at most MaxVol elements.
Small(size) ==
    IF Volume(size) <= MaxVol
    THEN { Tensor(size, data) : data \in [Indices(size) -> 0..MaxVal] }
    ELSE {}

\* The tensors of one size a call is given.
Batches(size) == { Ramp(size, seed) : seed \in 0..MaxSeed } \cup Small(size)

Inputs == UNION { Batches(size) : size \in Sizes }

\* A noise vector of length L with a different level for every image.
NoiseVector(L, seed) == Tensor(<<L>>, [i \in 0..(L - 1) |-> 100 * (seed + 1) + i])

Noises == { NoiseVector(L, seed) : L \in 0..(MaxN + 1), seed \in 0..MaxSeed }

(* --------------------------- state machine ---------------------------- *)
Init ==
    /\ input \in Inputs
    /\ noise_sigma = NotRun
    /\ folded = NotRun
    /\ features = NotRun
    /\ result = NotRun
    /\ grad_output = NotRun
    /\ grad_input = NotRun
    /\ pc = "start"

\* The network's first layer: concatenate_input_noise_map(input, noise_sigma).
Fold ==
    /\ pc = "start"
    /\ \E sigma \in Noises :
          /\ noise_sigma' = sigma
          /\ folded' = concatenate_input_noise_map(input, sigma)
    /\ pc' = "folded"
    /\ UNCHANGED <<input, features, result, grad_output, grad_input>>

\* The features handed to the last layer are the deinterleaved block of the
\* folded tensor: the noise block (the first C channels) is dropped.
DropNoise ==
    /\ pc = "folded"
    /\ IsTensor(folded)
    /\ features' = Slice(folded, input.size[2], folded.size[2], 1, 0, 1, 0, 1)
    /\ pc' = "features"
    /\ UNCHANGED <<input, noise_sigma, folded, result, grad_output, grad_input>>

\* The features handed to the last layer are an arbitrary tensor.
Feed ==
    /\ pc = "start"
    /\ features' = input
    /\ pc' = "features"
    /\ UNCHANGED <<input, noise_sigma, folded, result, grad_output, grad_input>>

\* The network's last layer: upsamplefeatures(features).
Forward ==
    /\ pc = "features"
    /\ result' = forward(features)
    /\ pc' = "unfolded"
    /\ UNCHANGED <<input, noise_sigma, folded, features, grad_output, grad_input>>

\* Autograd calls backward with a gradient of the size of forward's result.
Backward ==
    /\ pc = "unfolded"
    /\ IsTensor(result)
    /\ \E g \in Batches(result.size) :
          /\ grad_output' = g
          /\ grad_input' = backward(g)
    /\ pc' = "done"
    /\ UNCHANGED <<input, noise_sigma, folded, features, result>>

\* backward called on its own with an arbitrary gradient tensor.
BackwardAlone ==
    /\ pc = "start"
    /\ grad_output' = input
    /\ grad_input' = backward(input)
    /\ pc' = "done"
    /\ UNCHANGED <<input, noise_sigma, folded, features, result>>

Next == Fold \/ DropNoise \/ Feed \/ Forward \/ Backward \/ BackwardAlone

Spec == Init /\ [][Next]_vars

(* ------------------------- the claims' terms -------------------------- *)
\* The four positions of a 2x2 block in the order (0,0),(0,1),(1,0),(1,1).
OffsetRow(k) == k \div 2

OffsetCol(k) == k % 2

Even(x) == x % 2 = 0

HasRun(t) == t.kind # "none"

\* Fold has been called on an input the specification calls valid.
FoldValid ==
    /\ HasRun(folded)
    /\ Even(input.size[3]) /\ Even(input.size[4])
    /\ noise_sigma.size[1] = input.size[1]

\* F(0) + F(1) + ... + F(n - 1)
RECURSIVE SumTo(_, _)
SumTo(F(_), n) == IF n = 0 THEN 0 ELSE F(n - 1) + SumTo(F, n - 1)

\* Sum over all elements of a * b, for two tensors of one size.
Dot(a, b) ==
    SumTo(LAMBDA n :
        SumTo(LAMBDA c :
            SumTo(LAMBDA h :
                SumTo(LAMBDA w : a.data[<<n, c, h, w>>] * b.data[<<n, c, h, w>>],
                      a.size[4]),
                  a.size[3]),
              a.size[2]),
          a.size[1])

\* x with delta added to every element of every image other than image n.
OtherImages(x, n, delta) ==
    Tensor(x.size, [p \in Indices(x.size) |->
                        IF p[1] = n THEN x.data[p] ELSE x.data[p] + delta])

\* The noise vector with delta added to every level other than that of image n.
OtherLevels(v, n, delta) ==
    Tensor(v.size, [i \in 0..(v.size[1] - 1) |->
                        IF i = n THEN v.data[i] ELSE v.data[i] + delta])

\* Two tensors hold the same elements for image n.
SameImage(a, b, n) ==
    /\ IsTensor(a) /\ IsTensor(b)
    /\ a.size = b.size
    /\ \A p \in Indices(a.size) : p[1] = n => a.data[p] = b.data[p]

(* ----------------------------- the claims ----------------------------- *)

\* C1: round trip.  For an image batch with even H and W and a noise vector of
\* length N, Fold returns a tensor, and Unfold forward applied to that tensor
\* without its first C channels returns the image batch: same size, same
\* elements.
C1_RoundTrip ==
    /\ FoldValid => IsTensor(folded)
    /\ (FoldValid /\ HasRun(result)) => result = input

C1_Witness ==
    /\ FoldValid /\ HasRun(result)
    /\ input.size = <<2, 2, 4, 4>>
    /\ result = input

\* C2: layout of the deinterleaved block.  For a valid call, Fold's result has
\* size (N, 5C, H/2, W/2) and its channel C + k + 4c holds, at (i, j), the
\* input's channel c at (2i + OffsetRow(k), 2j + OffsetCol(k)).
C2_FoldLayout ==
    FoldValid =>
        LET N == input.size[1]
            C == input.size[2]
            H == input.size[3]
            W == input.size[4]
        IN  /\ IsTensor(folded)
            /\ folded.size = <<N, 5 * C, H \div 2, W \div 2>>
            /\ \A n \in 0..(N - 1), k \in 0..3, c \in 0..(C - 1),
                  i \in 0..((H \div 2) - 1), j \in 0..((W \div 2) - 1) :
                  folded.data[<<n, C + k + 4 * c, i, j>>] =
                      input.data[<<n, c, 2 * i + OffsetRow(k), 2 * j + OffsetCol(k)>>]

C2_Witness ==
    /\ FoldValid
    /\ input.size = <<1, 2, 4, 4>>
    /\ folded.size = <<1, 10, 2, 2>>
    /\ folded.data[<<0, 2 + 1 + 4, 1, 0>>] = input.data[<<0, 1, 2, 1>>]

\* C3: noise broadcast.  For a valid call, every element of the first C
\* channels of Fold's result is the noise level of its image.
C3_NoiseBroadcast ==
    FoldValid =>
        /\ IsTensor(folded)
        /\ \A p \in Indices(folded.size) :
              p[2] < input.size[2] => folded.data[p] = noise_sigma.data[p[1]]

C3_Witness ==
    /\ FoldValid
    /\ input.size = <<2, 2, 2, 4>>
    /\ folded.data[<<1, 1, 0, 1>>] = noise_sigma.data[1]
    /\ noise_sigma.data[1] # noise_sigma.data[0]

\* C4: Unfold forward.  For Cin divisible by 4 the result has size
\* (N, Cin/4, 2 Hin, 2 Win) and its channel c holds, at
\* (2i + OffsetRow(k), 2j + OffsetCol(k)), the input's channel k + 4c at (i, j);
\* every element of the result is selected by exactly one of the four passes
\* and none keeps the zero it was created with (seen when no input element
\* is 0).
C4_ForwardRule ==
    (HasRun(result) /\ features.size[2] % 4 = 0) =>
        LET N == features.size[1]
            Cin == features.size[2]
            Hin == features.size[3]
            Win == features.size[4]
        IN  /\ IsTensor(result)
            /\ result.size = <<N, Cin \div 4, 2 * Hin, 2 * Win>>
            /\ \A n \in 0..(N - 1), k \in 0..3, c \in 0..((Cin \div 4) - 1),
                  i \in 0..(Hin - 1), j \in 0..(Win - 1) :
                  result.data[<<n, c, 2 * i + OffsetRow(k), 2 * j + OffsetCol(k)>>] =
                      features.data[<<n, k + 4 * c, i, j>>]
            /\ \A p \in Indices(result.size) :
                  Cardinality({ idx \in 0..(sca2 - 1) :
                                  /\ p[3] % sca = idxL_forward[idx + 1][1]
                                  /\ p[4] % sca = idxL_forward[idx + 1][2] }) = 1
            /\ (\A q \in Indices(features.size) : features.data[q] # 0) =>
                  (\A p \in Indices(result.size) : result.data[p] # 0)

C4_Witness ==
    /\ HasRun(result)
    /\ features.size = <<2, 8, 2, 2>>
    /\ result.size = <<2, 2, 4, 4>>
    /\ result.data[<<1, 1, 3, 2>>] = features.data[<<1, 2 + 4, 1, 1>>]

\* C5: Fold rejects odd sizes.  Whenever H or W is odd, Fold ends in an error.
C5_FoldRejectsOdd ==
    (HasRun(folded) /\ (~Even(input.size[3]) \/ ~Even(input.size[4]))) => IsError(folded)

\* A batch of one image of one row: Fold returns a tensor with no rows.
C5_Witness ==
    /\ HasRun(folded)
    /\ input.size = <<1, 1, 1, 2>>
    /\ noise_sigma.size[1] = 1
    /\ IsTensor(folded)
    /\ folded.size = <<1, 5, 0, 1>>

\* C6: Unfold forward rejects a channel count not divisible by 4 with its
\* assertion error, and returns no tensor.
C6_ForwardRejectsChannels ==
    (HasRun(result) /\ features.size[2] % 4 # 0) =>
        result = Raised("AssertionError",
                        "Invalid input dimensions: number of channels should be divisible by 4")

C6_Witness ==
    /\ HasRun(result)
    /\ features.size = <<1, 3, 2, 2>>
    /\ IsError(result)

\* C7: Fold rejects a noise vector whose length is not N.
C7_FoldRejectsNoiseLength ==
    (HasRun(folded) /\ noise_sigma.size[1] # input.size[1]) => IsError(folded)

C7_Witness ==
    /\ HasRun(folded)
    /\ input.size = <<2, 1, 2, 2>>
    /\ noise_sigma.size[1] = 3
    /\ IsError(folded)

\* C8: adjoint.  For x the input of forward and g a gradient of the size of
\* forward(x), the sum of forward(x) * g equals the sum of x * backward(g).
C8_Adjoint ==
    (pc = "done" /\ HasRun(result)) =>
        /\ IsTensor(grad_input)
        /\ grad_input.size = features.size
        /\ Dot(result, grad_output) = Dot(features, grad_input)

C8_Witness ==
    /\ pc = "done" /\ HasRun(result)
    /\ ~HasRun(folded)
    /\ features.size = <<2, 4, 2, 2>>
    /\ grad_output # result
    /\ grad_input # features
    /\ Dot(result, grad_output) = Dot(features, grad_input)
    /\ Dot(result, grad_output) > 0

\* C9: batch independence.  Changing the images other than image n (and, for
\* Fold, their noise levels) leaves every element of image n of the result of
\* Fold, of forward and of backward as it was.
C9_BatchIndependence ==
    /\ IsTensor(folded) =>
          \A n \in 0..(input.size[1] - 1), delta \in 1..(MaxSeed + 1) :
              SameImage(concatenate_input_noise_map(OtherImages(input, n, delta),
                                                    OtherLevels(noise_sigma, n, delta)),
                        folded, n)
    /\ IsTensor(result) =>
          \A n \in 0..(features.size[1] - 1), delta \in 1..(MaxSeed + 1) :
              SameImage(forward(OtherImages(features, n, delta)), result, n)
    /\ IsTensor(grad_input) =>
          \A n \in 0..(grad_output.size[1] - 1), delta \in 1..(MaxSeed + 1) :
              SameImage(backward(OtherImages(grad_output, n, delta)), grad_input, n)

C9_Witness ==
    /\ pc = "done"
    /\ IsTensor(folded) /\ IsTensor(result) /\ IsTensor(grad_input)
    /\ input.size = <<2, 1, 2, 2>>
    /\ concatenate_input_noise_map(OtherImages(input, 0, 1),
                                   OtherLevels(noise_sigma, 0, 1)) # folded
    /\ forward(OtherImages(features, 0, 1)) # result
    /\ backward(OtherImages(grad_output, 0, 1)) # grad_input

\* C10: backward.  For a gradient g of size (N, Cout, Hout, Wout) with Hout and
\* Wout even, backward returns a tensor of size (N, 4 Cout, Hout/2, Wout/2)
\* whose channel k + 4c holds, at (i, j), channel c of g at
\* (2i + OffsetRow(k), 2j + OffsetCol(k)); it is the deinterleaved block of
\* Fold applied to g with any noise vector of length N.
C10_BackwardRule ==
    (HasRun(grad_input) /\ Even(grad_output.size[3]) /\ Even(grad_output.size[4])) =>
        LET N == grad_output.size[1]
            C == grad_output.size[2]
            H == grad_output.size[3]
            W == grad_output.size[4]
        IN  /\ IsTensor(grad_input)
            /\ grad_input.size = <<N, 4 * C, H \div 2, W \div 2>>
            /\ \A n \in 0..(N - 1), k \in 0..3, c \in 0..(C - 1),
                  i \in 0..((H \div 2) - 1), j \in 0..((W \div 2) - 1) :
                  grad_input.data[<<n, k + 4 * c, i, j>>] =
                      grad_output.data[<<n, c, 2 * i + OffsetRow(k), 2 * j + OffsetCol(k)>>]
            /\ \A sigma \in Noises :
                  sigma.size[1] = N =>
                      LET f == concatenate_input_noise_map(grad_output, sigma)
                      IN  /\ IsTensor(f)
                          /\ Slice(f, C, f.size[2], 1, 0, 1, 0, 1) = grad_input

C10_Witness ==
    /\ HasRun(grad_input)
    /\ ~HasRun(result)
    /\ grad_output.size = <<2, 2, 4, 2>>
    /\ grad_input.size = <<2, 8, 2, 1>>
    /\ grad_input.data[<<1, 2 + 4, 1, 0>>] = grad_output.data[<<1, 1, 3, 0>>]

====
